---- MODULE Spec2Model ----
(***************************************************************************)
(* Verification model of the parts-extraction front end (React) and of    *)
(* the extraction pipeline it calls.                                      *)
(*                                                                         *)
(*   SpecTable    the table-extraction App   (src/unnamed/part_000:35-278) *)
(*   SpecAuto     the auto-re-search App     (src/unnamed/part_001)        *)
(*   SpecPipeline the extraction pipeline behind /api/... ; its code is    *)
(*                not part of the sources, it is modelled from spec.md     *)
(*                                                                         *)
(* An async handler is two steps: the synchronous part up to its `await`  *)
(* (the request is put in flight) and the continuation that runs when the *)
(* response arrives (..._done).  Other events interleave in between.      *)
(***************************************************************************)
EXTENDS Integers, Sequences, FiniteSets, TLC

VARIABLES
    files,      \* useState([])   : the selected File objects, in order
    results,    \* useState([])   : the rows displayed
    isLoading,  \* useState(false)
    error,      \* useState("")
    lValue,     \* useState("20") : auto App only
    wValue,     \* useState("4")
    tValue,     \* useState("2")
    hasSearched,\* useState(false): auto App only
    inflight,   \* requests sent and not yet answered, in the order sent
    lastOp,     \* history: the answer the last step handled, if any
    pipe        \* the pipeline's state while it serves one request

vars == <<files, results, isLoading, error, lValue, wValue, tValue,
          hasSearched, inflight, lastOp, pipe>>

-----------------------------------------------------------------------------
(* Bounds of the model *)

MaxFiles == 2       \* files selected at once
MaxSelected == 2    \* files in one selection of the file picker
MaxInFlight == 2    \* requests in flight at once
MaxBatch == 2       \* files in one request to the pipeline
MaxRuns == 2        \* searches run one after the other on the same input
MaxFieldLen == 2    \* characters of a part number in a CSV
MaxCsvRows == 2     \* records of a ResultSet written as CSV

-----------------------------------------------------------------------------
(* Strings.  A string is a TLA+ string; `!==` is inequality of strings.     *)
(* String.prototype.localeCompare orders strings by collation, and returns  *)
(* 0 for two distinguishable strings that are canonically equivalent        *)
(* (ECMA-262, String.prototype.localeCompare): "PN1" and "PN1~" stand for   *)
(* the composed and the decomposed form of one part number.                 *)

PartNumbers == {"PN1", "PN1~", "PN2"}
FileNames == {"a.pdf", "b.pdf", "c.pdf"}

CollationKey(s) ==
    CASE s = ""      -> 0
      [] s = "PN1"   -> 1
      [] s = "PN1~"  -> 1
      [] s = "PN2"   -> 2
      [] s = "a.pdf" -> 3
      [] s = "b.pdf" -> 4
      [] s = "c.pdf" -> 5

localeCompare(a, b) ==
    IF CollationKey(a) < CollationKey(b) THEN -1
    ELSE IF CollationKey(a) > CollationKey(b) THEN 1
    ELSE 0

-----------------------------------------------------------------------------
(* The files the user can pick.  The front end sees name, size and          *)
(* lastModified (File objects); the pipeline sees the bytes, given here as  *)
(* the document they decode to.                                             *)

FA  == [name |-> "a.pdf", size |-> 1, lastModified |-> 1]
FA2 == [name |-> "a.pdf", size |-> 2, lastModified |-> 1]
FB  == [name |-> "b.pdf", size |-> 1, lastModified |-> 1]
FC  == [name |-> "c.pdf", size |-> 1, lastModified |-> 1]

AllFiles == {FA, FA2, FB, FC}

\* `${f.name}-${f.size}-${f.lastModified}`: size and lastModified are numbers,
\* so the three fields can be read back from the string: the signature is the
\* triple.
Signature(f) == <<f.name, f.size, f.lastModified>>

\* Lengths are held in tenths: 200 is 20.0
Line(parts, l, w, t) == [parts |-> parts, L |-> l, W |-> w, T |-> t]

Document(f) ==
    CASE f = FA ->
           [corrupt |-> FALSE,
            pages |-> << [textLayer |-> "PART NO ...",
                          lines |-> << Line(<<"PN2">>, {200}, {40}, {20}),
                                       Line(<<"PN1">>, {200}, {}, {}),
                                       Line(<<"PN2">>, {}, {}, {}) >>] >>]
      [] f = FA2 ->
           [corrupt |-> FALSE,
            pages |-> << [textLayer |-> "PART NO ...",
                          lines |-> << Line(<<"PN1">>, {200}, {40}, {}) >>] >>]
      [] f = FB ->
           [corrupt |-> TRUE, pages |-> << >>]
      [] f = FC ->
           [corrupt |-> FALSE,
            pages |-> << [textLayer |-> "   ",
                          lines |-> << Line(<<"PN1~">>, {201}, {50}, {20}) >>] >>]

-----------------------------------------------------------------------------
(* Sequence helpers *)

RECURSIVE Concat(_)
Concat(ss) == IF ss = << >> THEN << >> ELSE Head(ss) \o Concat(Tail(ss))

Elems(s) == {s[i] : i \in 1..Len(s)}

\* the first occurrence of every element, in order
RECURSIVE Dedup(_)
Dedup(s) ==
    IF s = << >> THEN << >>
    ELSE LET r == Dedup(SubSeq(s, 1, Len(s) - 1))
             x == s[Len(s)]
         IN  IF x \in Elems(r) THEN r ELSE Append(r, x)

SeqsUpTo(S, n) == UNION {[1..k -> S] : k \in 0..n}

-----------------------------------------------------------------------------
(* Requests.  A FormData is the files appended under "files" and the text   *)
(* fields appended; a field that was not appended is absent.                *)

NoFields == [k \in {} |-> ""]

toFilesFormData(fs) == [files |-> fs, fields |-> NoFields]

toFormDataMutant(fs, l, w, t, returnCsv) ==
    [files |-> fs,
     fields |-> [l_value |-> IF l = "" THEN "0" ELSE l,
                 w_value |-> IF w = "" THEN "0" ELSE w,
                 t_value |-> IF t = "" THEN "0" ELSE t,
                 return_csv |-> IF returnCsv THEN "true" ELSE "false"]]

\* tValue is a string (the TextField's value), so `tValue ?? ""` is tValue
toFormData(fs, l, w, t, returnCsv) ==
    [files |-> fs,
     fields |-> [l_value |-> l, w_value |-> w, t_value |-> t,
                 return_csv |-> IF returnCsv THEN "true" ELSE "false"]]

toPartsTableFormDataMutant(fs, l, w, t) ==
    [files |-> fs,
     fields |-> [l_value |-> IF l = "" THEN "0" ELSE l,
                 w_value |-> IF w = "" THEN "0" ELSE w,
                 t_value |-> IF t = "" THEN "0" ELSE t]]

toPartsTableFormData(fs, l, w, t) ==
    [files |-> fs, fields |-> [l_value |-> l, w_value |-> w, t_value |-> t]]

toLinesCsvFormData(fs) == [files |-> fs, fields |-> NoFields]

-----------------------------------------------------------------------------
(* The pipeline, as spec.md describes it (sections 4 to 7).                 *)

Axes == {"L", "W", "T"}
FieldOf(axis) == CASE axis = "L" -> "l_value" [] axis = "W" -> "w_value"
                   [] axis = "T" -> "t_value"

\* the numeric strings of the model, in tenths; every other string is not a number
NumberStrings == {"0", "2", "4", "5", "20"}
Tenths(s) == CASE s = "0" -> 0 [] s = "2" -> 20 [] s = "4" -> 40
               [] s = "5" -> 50 [] s = "20" -> 200

\* the absolute epsilon of the Dimension Matcher, in tenths
Tolerance == 1

\* section 6: a field absent or empty is unconstrained
Field(form, k) == IF k \in DOMAIN form.fields THEN form.fields[k] ELSE ""
AxisSet(form, axis) == Field(form, FieldOf(axis)) # ""

\* section 7: InvalidCriteria, a supplied value is non-numeric
InvalidCriteria(form) ==
    \E axis \in Axes : AxisSet(form, axis)
                       /\ Field(form, FieldOf(axis)) \notin NumberStrings

\* DimensionCriteria: per axis the value asked for, or none
Criteria(form) ==
    [axis \in Axes |-> IF AxisSet(form, axis)
                       THEN {Tenths(Field(form, FieldOf(axis)))} ELSE {}]

NoCriteria == [axis \in Axes |-> {}]

Abs(x) == IF x < 0 THEN -x ELSE x

matchesMutant(line, criteria) ==
    /\ \E axis \in Axes : criteria[axis] # {}
    /\ \A axis \in Axes :
        \A c \in criteria[axis] : \E v \in line[axis] : Abs(v - c) <= Tolerance

\* section 4.5: an axis present in the criteria must find a value on the line
\* within tolerance; an absent axis is not checked
matches(line, criteria) ==
    \A axis \in Axes :
        \A c \in criteria[axis] : \E v \in line[axis] : Abs(v - c) <= Tolerance

\* section 4.1: image-only = the decoded text layer is empty or whitespace-only
Whitespace == {"", " ", "   "}
ImageOnlyMutant(page) == page.textLayer = ""

ImageOnly(page) == page.textLayer \in Whitespace

\* sections 4.2-4.4: the candidates of a file, page by page, line by line;
\* one candidate per distinct token in a line
LineCandidates(f, p, n) ==
    LET line == Document(f).pages[p].lines[n]
        toks == Dedup(line.parts)
    IN  [k \in 1..Len(toks) |->
            [part_number |-> toks[k], file_name |-> f.name,
             matched_line |-> <<p, n>>, line |-> line]]

PageCandidates(f, p) ==
    Concat([n \in 1..Len(Document(f).pages[p].lines) |-> LineCandidates(f, p, n)])

FileCandidates(f) ==
    IF Document(f).corrupt THEN << >>
    ELSE Concat([p \in 1..Len(Document(f).pages) |-> PageCandidates(f, p)])

Passing(cands, criteria) ==
    SelectSeq(cands, LAMBDA c : matches(c.line, criteria))

\* section 4.6, line-search mode: discovery order, not deduplicated
SearchLines(form) ==
    Concat([i \in 1..Len(form.files) |->
              Passing(FileCandidates(form.files[i]), Criteria(form))])

\* section 4.6, parts-list mode, as the response of
\* /api/extract_part_numbers_from_table (part_000:107-111): one entry per file;
\* a corrupt file has no candidates and is named in an annotation
PartNumbersOf(f, criteria) ==
    LET c == Passing(FileCandidates(f), criteria)
    IN  Dedup([k \in 1..Len(c) |-> c[k].part_number])

ExtractPartNumbers(form) ==
    [data |-> [i \in 1..Len(form.files) |->
                 LET pn == PartNumbersOf(form.files[i], Criteria(form))
                 IN  [file_name |-> form.files[i].name,
                      count |-> Len(pn),
                      part_numbers |-> pn]],
     annotations |-> {f.name : f \in {g \in Elems(form.files) : Document(g).corrupt}}]

-----------------------------------------------------------------------------
(* What a request can come back with: the pipeline's answer, a failure that *)
(* carries a detail (err.response.data.detail), or a failure without one    *)
(* (no response, or a body without detail).                                 *)

\* section 7: the request-terminating failures.  Whether the OCR engine can
\* run is the environment's, so is whether the server can be reached.
FailureDetails(form) ==
    IF InvalidCriteria(form) THEN {"InvalidCriteria"} ELSE {"OcrUnavailable"}

Answers(form) ==
    (IF InvalidCriteria(form) THEN {} ELSE {[ok |-> TRUE, detail |-> ""]})
    \cup {[ok |-> FALSE, detail |-> d] : d \in FailureDetails(form) \cup {""}}

\* The answer to a CSV request is a blob the front end saves without reading
\* it: a CSV request in flight is kept as its endpoint, without its form.
Blob == [files |-> << >>, fields |-> NoFields]

Request(kind, silent, form) == [kind |-> kind, silent |-> silent, form |-> form]
NoRequest == Request("none", FALSE, Blob)

\* the pipeline serves no request
NoRun == [phase |-> "none"]

\* history: the request whose answer the last step handled, if it handled one,
\* and the detail the answer carried
Handled(name, answer, req) ==
    [name |-> name, ok |-> answer.ok, req |-> req, detail |-> answer.detail]
Op(name, ok, req) == Handled(name, [ok |-> ok, detail |-> ""], req)
Idle == Op("", TRUE, NoRequest)

RemoveAt(s, i) == [k \in 1..(Len(s) - 1) |-> IF k < i THEN s[k] ELSE s[k + 1]]

\* the selections a file picker can hand over: any non-empty list of files
Selections(universe) == SeqsUpTo(universe, MaxSelected) \ {<< >>}

-----------------------------------------------------------------------------
(* Code shared by the Apps *)

\* part_000:58-66 = part_001:79-91 = App.jsx:78-87: `existing` is computed
\* from prev once; the selected files are tested against it one by one
MergeFilesMutant(prev, selected) == prev \o selected

MergeFiles(prev, selected) ==
    LET existing == {Signature(prev[i]) : i \in 1..Len(prev)}
    IN  prev \o SelectSeq(selected, LAMBDA f : Signature(f) \notin existing)

FilterOutIndexMutant(prev, idx) ==
    LET keep == {i \in 1..Len(prev) : i # idx}
        pos(k) == CHOOSE i \in keep : Cardinality({j \in keep : j < i}) = k - 1
    IN  [k \in 1..Cardinality(keep) |-> prev[pos(k)]]

\* prev.filter((_, i) => i !== idx), idx counted from 0
FilterOutIndex(prev, idx) ==
    LET keep == {i \in 1..Len(prev) : i - 1 # idx}
        pos(k) == CHOOSE i \in keep : Cardinality({j \in keep : j < i}) = k - 1
    IN  [k \in 1..Cardinality(keep) |-> prev[pos(k)]]

FlattenRowsMutant(data) ==
    Concat([i \in 1..Len(data) |->
              [j \in 1..(IF Len(data[i].part_numbers) > 0 THEN 1 ELSE 0) |->
                  [part_number |-> data[i].part_numbers[j],
                   file_name |-> data[i].file_name]]])

\* part_000:112-118 = part_001:135-140: response.data.flatMap(...)
FlattenRows(data) ==
    Concat([i \in 1..Len(data) |->
              [j \in 1..Len(data[i].part_numbers) |->
                  [part_number |-> data[i].part_numbers[j],
                   file_name |-> data[i].file_name]]])

\* part_000:121-126: the comparator given to rows.sort
CompareRowsMutant(a, b) == localeCompare(a.part_number, b.part_number)

CompareRows(a, b) ==
    LET pa == a.part_number
        pb == b.part_number
    IN  IF pa # pb THEN localeCompare(pa, pb)
        ELSE localeCompare(a.file_name, b.file_name)

\* Array.prototype.sort is stable: an element goes after the last one that
\* does not compare greater than it
RECURSIVE SortRows(_)
SortRows(rows) ==
    IF rows = << >> THEN << >>
    ELSE LET done == SortRows(SubSeq(rows, 1, Len(rows) - 1))
             x == rows[Len(rows)]
             after == {i \in 1..Len(done) : CompareRows(done[i], x) <= 0}
             at == IF after = {} THEN 0
                   ELSE CHOOSE i \in after : \A j \in after : j <= i
         IN  SubSeq(done, 1, at) \o <<x>> \o SubSeq(done, at + 1, Len(done))

-----------------------------------------------------------------------------
(* The table-extraction App (part_000:35-278).  Its L/W/T fields are not    *)
(* read by any handler (part_000:26, 43-46); they stay as initialised.      *)

SearchFailedText == "PART No. extraction failed"           \* part_000:130
PartsCsvFailedText == "parts_list.csv download failed"     \* part_000:151

isSearchDisabled_TableMutant == Len(files) = 0

\* part_000:48-49
isSearchDisabled_Table == Len(files) = 0 \/ isLoading
isCsvDisabled_Table == Len(files) = 0 \/ isLoading

InitTable ==
    /\ files = << >>
    /\ results = << >>
    /\ isLoading = FALSE
    /\ error = ""
    /\ lValue = ""
    /\ wValue = ""
    /\ tValue = ""
    /\ hasSearched = FALSE
    /\ inflight = << >>
    /\ lastOp = Idle
    /\ pipe = NoRun

\* part_000:53-70; the picker opens from a button disabled while isLoading
\* (part_000:174)
handleFileChange_Table ==
    /\ ~isLoading
    /\ \E selected \in Selections(AllFiles) :
        /\ Len(MergeFiles(files, selected)) <= MaxFiles
        /\ files' = MergeFiles(files, selected)
    /\ lastOp' = Idle
    /\ UNCHANGED <<results, isLoading, error, lValue, wValue, tValue,
                   hasSearched, inflight, pipe>>

\* part_000:72-76; the button is disabled while isLoading (part_000:177)
handleClear_Table ==
    /\ ~isLoading
    /\ files' = << >>
    /\ results' = << >>
    /\ error' = ""
    /\ lastOp' = Idle
    /\ UNCHANGED <<isLoading, lValue, wValue, tValue, hasSearched, inflight, pipe>>

\* part_000:78-80; called from the chip of file idx (part_000:187-191)
handleRemoveFile_Table ==
    /\ \E idx \in 0..(Len(files) - 1) : files' = FilterOutIndex(files, idx)
    /\ lastOp' = Idle
    /\ UNCHANGED <<results, isLoading, error, lValue, wValue, tValue,
                   hasSearched, inflight, pipe>>

\* part_000:94-105: handleSearch up to the await
handleSearch_Table ==
    /\ ~isSearchDisabled_Table
    /\ Len(inflight) < MaxInFlight
    /\ isLoading' = TRUE
    /\ error' = ""
    /\ results' = << >>
    /\ inflight' = Append(inflight, Request("search", FALSE, toFilesFormData(files)))
    /\ lastOp' = Idle
    /\ UNCHANGED <<files, lValue, wValue, tValue, hasSearched, pipe>>

handleSearch_Table_doneMutant ==
    \E i \in 1..Len(inflight) :
        /\ inflight[i].kind = "search"
        /\ \E answer \in Answers(inflight[i].form) :
            /\ IF answer.ok
               THEN /\ results' = SortRows(FlattenRows(ExtractPartNumbers(inflight[i].form).data))
                    /\ error' = error
                    /\ isLoading' = FALSE
               ELSE /\ error' = (IF answer.detail # "" THEN answer.detail
                                 ELSE SearchFailedText)
                    /\ results' = results
                    /\ isLoading' = isLoading
            /\ lastOp' = Handled("handleSearch_done", answer, inflight[i])
        /\ inflight' = RemoveAt(inflight, i)
        /\ UNCHANGED <<files, lValue, wValue, tValue, hasSearched, pipe>>

\* part_000:106-133: handleSearch from the response on
handleSearch_Table_done ==
    \E i \in 1..Len(inflight) :
        /\ inflight[i].kind = "search"
        /\ \E answer \in Answers(inflight[i].form) :
            /\ IF answer.ok
               THEN /\ results' = SortRows(FlattenRows(ExtractPartNumbers(inflight[i].form).data))
                    /\ error' = error
               ELSE /\ error' = (IF answer.detail # "" THEN answer.detail
                                 ELSE SearchFailedText)
                    /\ results' = results
            /\ lastOp' = Handled("handleSearch_done", answer, inflight[i])
        /\ isLoading' = FALSE
        /\ inflight' = RemoveAt(inflight, i)
        /\ UNCHANGED <<files, lValue, wValue, tValue, hasSearched, pipe>>

\* part_000:137-146: handleDownloadPartsListCsv up to the await
handleDownloadPartsListCsv_Table ==
    /\ ~isCsvDisabled_Table
    /\ Len(inflight) < MaxInFlight
    /\ error' = ""
    /\ inflight' = Append(inflight, Request("parts_list.csv", FALSE, Blob))
    /\ lastOp' = Idle
    /\ UNCHANGED <<files, results, isLoading, lValue, wValue, tValue,
                   hasSearched, pipe>>

\* part_000:148-152: from the response on; on success the blob is saved.  The
\* request is made with responseType "blob" (part_000:145), so the body of a
\* failed response is a Blob: err.response.data.detail is undefined whatever
\* the server sent, and the fallback text is set.
handleDownloadPartsListCsv_Table_done ==
    \E i \in 1..Len(inflight) :
        /\ inflight[i].kind = "parts_list.csv"
        /\ \E answer \in Answers(inflight[i].form) :
            /\ error' = (IF answer.ok THEN error ELSE PartsCsvFailedText)
            /\ lastOp' = Handled(IF answer.ok THEN "saved parts_list.csv"
                                 ELSE "handleDownloadPartsListCsv_done",
                                 answer, NoRequest)
        /\ inflight' = RemoveAt(inflight, i)
        /\ UNCHANGED <<files, results, isLoading, lValue, wValue, tValue,
                       hasSearched, pipe>>

NextTable ==
    \/ handleFileChange_Table
    \/ handleClear_Table
    \/ handleRemoveFile_Table
    \/ handleSearch_Table
    \/ handleSearch_Table_done
    \/ handleDownloadPartsListCsv_Table
    \/ handleDownloadPartsListCsv_Table_done

SpecTable == InitTable /\ [][NextTable]_vars

\* every request is answered: with rows, with a failure that carries a detail
\* or with a failure without a response (axios settles the promise in each
\* case); nothing else is assumed of the user or the network
FairTable == SpecTable /\ WF_vars(handleSearch_Table_done)

-----------------------------------------------------------------------------
(* The auto-re-search App (part_001:54-374).                                *)
(*                                                                          *)
(* useEffect (part_001:239-244) runs after a render in which hasSearched    *)
(* or executeSearch changed; executeSearch is a new function when files,    *)
(* lValue, wValue, tValue or isSearchDisabled changed (part_001:154).  The  *)
(* effect is part of the step that changed them.  Every setFiles makes a    *)
(* new array, but the handlers that call it set hasSearched to false in the *)
(* same batch, so the effect returns at once there.                         *)

SearchErrorText == "error during the search"               \* part_001:146
CsvFailedText == "CSV download failed"                     \* part_001:191
LinesCsvFailedText == "PDF lines CSV download failed"      \* part_001:220

\* what the three number fields are set to
LValues == {"20", "5"}
WValues == {"4", ""}
TValues == {"2", ""}

\* what is picked in this App
AutoFiles == {FA}
AutoSelections ==
    {sel \in Selections(AutoFiles) :
        \A i, j \in 1..Len(sel) : i # j => sel[i] # sel[j]}

\* part_001:65-71
isSearchDisabled_Auto(fs) == Len(fs) = 0
isLinesCsvDisabled_Auto(fs) == Len(fs) = 0

InitAuto ==
    /\ files = << >>
    /\ lValue = "20"
    /\ wValue = "4"
    /\ tValue = "2"
    /\ results = << >>
    /\ error = ""
    /\ isLoading = FALSE
    /\ hasSearched = FALSE
    /\ inflight = << >>
    /\ lastOp = Idle
    /\ pipe = NoRun

\* part_001:239-244 with executeSearch({silent: true}) (part_001:100-134) up to
\* its await, in the render that holds fs, l, w, t and hs; err and sent are
\* error and inflight as the step leaves them without the effect
EffectSends(fs, hs) == hs /\ ~isSearchDisabled_Auto(fs)

\* history of a change of value: the effect ran and sent a request, or not
AfterValueChange ==
    IF EffectSends(files, hasSearched) THEN Op("useEffect", TRUE, NoRequest) ELSE Idle

useEffectMutant(fs, l, w, t, hs, err, sent) ==
    IF EffectSends(fs, hs)
    THEN /\ error' = ""
         /\ inflight' = Append(sent, Request("search", TRUE,
                                             toPartsTableFormData(fs, l, w, "")))
    ELSE /\ error' = err
         /\ inflight' = sent

useEffect(fs, l, w, t, hs, err, sent) ==
    IF EffectSends(fs, hs)
    THEN /\ error' = ""
         /\ inflight' = Append(sent, Request("search", TRUE,
                                             toPartsTableFormData(fs, l, w, t)))
    ELSE /\ error' = err
         /\ inflight' = sent

\* part_001:73-98
handleFileChange_AutoOf(selections) ==
    /\ \E selected \in selections :
        /\ Len(MergeFiles(files, selected)) <= MaxFiles
        /\ files' = MergeFiles(files, selected)
    /\ hasSearched' = FALSE
    /\ lastOp' = Idle
    /\ UNCHANGED <<results, isLoading, error, lValue, wValue, tValue, inflight, pipe>>

handleFileChange_Auto == handleFileChange_AutoOf(AutoSelections)

\* part_001:224-232
handleClear_Auto ==
    /\ files' = << >>
    /\ results' = << >>
    /\ error' = ""
    /\ hasSearched' = FALSE
    /\ lastOp' = Idle
    /\ UNCHANGED <<isLoading, lValue, wValue, tValue, inflight, pipe>>

\* part_001:234-237; called from the chip of file indexToRemove (part_001:280-284)
handleRemoveFile_Auto ==
    /\ \E indexToRemove \in 0..(Len(files) - 1) :
        files' = FilterOutIndex(files, indexToRemove)
    /\ hasSearched' = FALSE
    /\ lastOp' = Idle
    /\ UNCHANGED <<results, isLoading, error, lValue, wValue, tValue, inflight, pipe>>

\* part_001:295, 302, 309: onChange of a number field, then the effect
setLValue ==
    /\ \E v \in LValues \ {lValue} : lValue' = v
    /\ EffectSends(files, hasSearched) => Len(inflight) < MaxInFlight
    /\ useEffect(files, lValue', wValue, tValue, hasSearched, error, inflight)
    /\ lastOp' = AfterValueChange
    /\ UNCHANGED <<files, results, isLoading, wValue, tValue, hasSearched, pipe>>

setWValue ==
    /\ \E v \in WValues \ {wValue} : wValue' = v
    /\ EffectSends(files, hasSearched) => Len(inflight) < MaxInFlight
    /\ useEffect(files, lValue, wValue', tValue, hasSearched, error, inflight)
    /\ lastOp' = AfterValueChange
    /\ UNCHANGED <<files, results, isLoading, lValue, tValue, hasSearched, pipe>>

setTValue ==
    /\ \E v \in TValues \ {tValue} : tValue' = v
    /\ EffectSends(files, hasSearched) => Len(inflight) < MaxInFlight
    /\ useEffect(files, lValue, wValue, tValue', hasSearched, error, inflight)
    /\ lastOp' = AfterValueChange
    /\ UNCHANGED <<files, results, isLoading, lValue, wValue, hasSearched, pipe>>

\* part_001:157-162 with executeSearch() (part_001:100-134) up to its await;
\* the button is disabled while isLoading (part_001:322)
handleSearch_Auto ==
    /\ ~isSearchDisabled_Auto(files)
    /\ ~isLoading
    /\ Len(inflight) < MaxInFlight
    /\ isLoading' = TRUE
    /\ error' = ""
    /\ inflight' = Append(inflight, Request("search", FALSE,
                              toPartsTableFormData(files, lValue, wValue, tValue)))
    /\ lastOp' = Idle
    /\ UNCHANGED <<files, results, lValue, wValue, tValue, hasSearched, pipe>>

\* the error executeSearch leaves when the answer is in (part_001:143-147)
SearchError(answer, err) ==
    IF answer.ok THEN err
    ELSE IF answer.detail # "" THEN answer.detail ELSE SearchErrorText

\* part_001:135-152 and 163: the rest of executeSearch(), setHasSearched(true),
\* and the effect when hasSearched was false
handleSearch_Auto_done ==
    \E i \in 1..Len(inflight) :
        /\ inflight[i].kind = "search"
        /\ ~inflight[i].silent
        /\ \E answer \in Answers(inflight[i].form) :
            /\ results' = (IF answer.ok
                           THEN FlattenRows(ExtractPartNumbers(inflight[i].form).data)
                           ELSE results)
            /\ IF hasSearched
               THEN /\ error' = SearchError(answer, error)
                    /\ inflight' = RemoveAt(inflight, i)
               ELSE useEffect(files, lValue, wValue, tValue, TRUE,
                              SearchError(answer, error), RemoveAt(inflight, i))
            /\ lastOp' = Handled("handleSearch_done", answer, inflight[i])
        /\ isLoading' = FALSE
        /\ hasSearched' = TRUE
        /\ UNCHANGED <<files, lValue, wValue, tValue, pipe>>

\* part_001:135-152: the rest of executeSearch({silent: true})
executeSearch_silent_done ==
    \E i \in 1..Len(inflight) :
        /\ inflight[i].kind = "search"
        /\ inflight[i].silent
        /\ \E answer \in Answers(inflight[i].form) :
            /\ results' = (IF answer.ok
                           THEN FlattenRows(ExtractPartNumbers(inflight[i].form).data)
                           ELSE results)
            /\ error' = SearchError(answer, error)
            /\ lastOp' = Handled("executeSearch_silent_done", answer, inflight[i])
        /\ inflight' = RemoveAt(inflight, i)
        /\ UNCHANGED <<files, isLoading, lValue, wValue, tValue, hasSearched, pipe>>

\* part_001:166-179 and 195-208: a CSV handler up to its await
DownloadCsv_Auto(name) ==
    /\ ~isSearchDisabled_Auto(files)
    /\ Len(inflight) < MaxInFlight
    /\ error' = ""
    /\ inflight' = Append(inflight, Request(name, FALSE, Blob))
    /\ lastOp' = Idle
    /\ UNCHANGED <<files, results, isLoading, lValue, wValue, tValue, hasSearched, pipe>>

\* part_001:181-192 and 210-221: from the response on.  With responseType
\* "blob" (part_001:177, 206) the body of a failed response is a Blob without
\* `detail`: the fallback text is set.
DownloadCsv_Auto_done(name, op, fallback) ==
    \E i \in 1..Len(inflight) :
        /\ inflight[i].kind = name
        /\ \E answer \in Answers(inflight[i].form) :
            /\ error' = (IF answer.ok THEN error ELSE fallback)
            /\ lastOp' = Handled(IF answer.ok THEN "saved " \o name ELSE op,
                                 answer, NoRequest)
        /\ inflight' = RemoveAt(inflight, i)
        /\ UNCHANGED <<files, results, isLoading, lValue, wValue, tValue, hasSearched, pipe>>

handleDownloadPartsListCsv_Auto ==
    DownloadCsv_Auto("parts_list.csv")

handleDownloadPartsListCsv_Auto_done ==
    DownloadCsv_Auto_done("parts_list.csv", "handleDownloadPartsListCsv_done", CsvFailedText)

handleDownloadLinesCsv_Auto ==
    DownloadCsv_Auto("pdf_lines.csv")

handleDownloadLinesCsv_Auto_done ==
    DownloadCsv_Auto_done("pdf_lines.csv", "handleDownloadLinesCsv_done", LinesCsvFailedText)

NextAuto ==
    \/ handleFileChange_Auto
    \/ handleClear_Auto
    \/ handleRemoveFile_Auto
    \/ setLValue
    \/ setWValue
    \/ setTValue
    \/ handleSearch_Auto
    \/ handleSearch_Auto_done
    \/ executeSearch_silent_done
    \/ handleDownloadPartsListCsv_Auto
    \/ handleDownloadPartsListCsv_Auto_done
    \/ handleDownloadLinesCsv_Auto
    \/ handleDownloadLinesCsv_Auto_done

SpecAuto == InitAuto /\ [][NextAuto]_vars

\* The same App with two files to pick from and the L/W/T fields left at
\* their initial values: the file list and the searches.
TwoFiles == {FA, FB}

handleFileChange_TwoFiles == handleFileChange_AutoOf(Selections(TwoFiles))

NextAutoFiles ==
    \/ handleFileChange_TwoFiles
    \/ handleClear_Auto
    \/ handleRemoveFile_Auto
    \/ handleSearch_Auto
    \/ handleSearch_Auto_done
    \/ executeSearch_silent_done

SpecAutoFiles == InitAuto /\ [][NextAutoFiles]_vars

-----------------------------------------------------------------------------
(* The pipeline serving one request, step by step (spec.md, section 2:      *)
(* Loader, then per page the Text-Layer Extractor or the OCR Fallback       *)
(* Extractor, Token Normalizer, Dimension Matcher, then the Aggregator).    *)
(* The request is the form the front end builds from the files and the      *)
(* L/W/T values at hand; files, lValue, wValue and tValue hold them.        *)

Endpoints == {"/api/search", "/api/extract_part_numbers_from_table"}

\* the values a caller can supply: empty, numbers, and a non-numeric string
PipeLValues == {"", "20", "abc"}
PipeWValues == {"", "4", "5"}
PipeTValues == {"", "2", "abc"}

Batches == SeqsUpTo(AllFiles, MaxBatch) \ {<< >>}

\* part_000:404-408 (/api/search) and part_001:113-117
\* (/api/extract_part_numbers_from_table)
FormOf(endpoint, fs, l, w, t) ==
    IF endpoint = "/api/search"
    THEN toFormData(fs, l, w, t, FALSE)
    ELSE toPartsTableFormData(fs, l, w, t)

Received(endpoint, form, ocr) ==
    [phase |-> "received", endpoint |-> endpoint, form |-> form,
     ocrAvailable |-> ocr, file |-> 0, page |-> 0, steps |-> << >>,
     found |-> << >>, annotations |-> {}, error |-> "", result |-> << >>]

\* The front ends that send a search: the table-extraction App
\* (part_000:94-134), the auto-re-search App (part_001:100-155) and the
\* line-search App (part_000:370-432)
Apps == {"table", "auto", "line-search"}

EndpointOf(app) ==
    IF app = "line-search" THEN "/api/search"
    ELSE "/api/extract_part_numbers_from_table"

\* part_000:99 (toFilesFormData), part_001:131-134, part_000:404-408
FormOfApp(app, fs, l, w, t) ==
    IF app = "table" THEN toFilesFormData(fs)
    ELSE FormOf(EndpointOf(app), fs, l, w, t)

\* the n-th search on the same input; previous holds the rows displayed when
\* it was sent
Submitted(app, form, ocr, n, previous) ==
    Received(EndpointOf(app), form, ocr)
        @@ [app |-> app, run |-> n, previous |-> previous]

otherState == <<files, isLoading, error, lValue, wValue, tValue,
                hasSearched, inflight, lastOp>>

frontEnd == <<files, results, isLoading, error, lValue, wValue, tValue,
              hasSearched, inflight, lastOp>>

InitPipeline ==
    /\ files \in Batches
    /\ lValue \in PipeLValues
    /\ wValue \in PipeWValues
    /\ tValue \in PipeTValues
    /\ results = << >>
    /\ isLoading = FALSE
    /\ error = ""
    /\ hasSearched = FALSE
    /\ inflight = << >>
    /\ lastOp = Idle
    /\ \E app \in Apps, ocr \in BOOLEAN :
          \* the table-extraction App keeps its L/W/T fields empty (part_000:44-46)
          /\ app = "table" => lValue = "" /\ wValue = "" /\ tValue = ""
          /\ pipe = Submitted(app, FormOfApp(app, files, lValue, wValue, tValue),
                              ocr, 1, << >>)

Failed(run, category) == [run EXCEPT !.phase = "failed", !.error = category]

\* the file being processed is done: on to the next one, or to the Aggregator
AfterFile(run) ==
    IF run.file < Len(run.form.files)
    THEN [run EXCEPT !.phase = "load", !.file = @ + 1, !.page = 0]
    ELSE [run EXCEPT !.phase = "aggregate", !.page = 0]

AfterPage(run) ==
    IF run.page < Len(Document(run.form.files[run.file]).pages)
    THEN [run EXCEPT !.page = @ + 1]
    ELSE AfterFile(run)

validateMutant ==
    /\ pipe.phase = "received"
    /\ pipe' = IF InvalidCriteria(pipe.form)
               THEN Failed([pipe EXCEPT !.steps = Append(@, <<"load", 1, 0>>)],
                           "InvalidCriteria")
               ELSE AfterFile(pipe)
    /\ UNCHANGED frontEnd

\* section 7: InvalidCriteria is surfaced before any extraction work runs
validate ==
    /\ pipe.phase = "received"
    /\ pipe' = IF InvalidCriteria(pipe.form)
               THEN Failed(pipe, "InvalidCriteria")
               ELSE AfterFile(pipe)
    /\ UNCHANGED frontEnd

\* section 4.1, Document Loader; section 4.6: a corrupt file contributes no
\* candidates and is annotated
load ==
    /\ pipe.phase = "load"
    /\ LET f   == pipe.form.files[pipe.file]
           run == [pipe EXCEPT !.steps = Append(@, <<"load", pipe.file, 0>>),
                               !.found = Append(@, << >>)]
       IN  pipe' = IF Document(f).corrupt
                   THEN AfterFile([run EXCEPT !.annotations = @ \cup {f.name}])
                   ELSE IF Document(f).pages = << >>
                   THEN AfterFile(run)
                   ELSE [run EXCEPT !.phase = "page", !.page = 1]
    /\ UNCHANGED frontEnd

\* the candidates of the page at hand that pass the Dimension Matcher are
\* added to those of its file (sections 4.4, 4.5)
Extracted(run, method) ==
    LET f == run.form.files[run.file]
    IN  AfterPage([run EXCEPT
            !.steps = Append(@, <<method, run.file, run.page>>),
            !.found[run.file] =
                @ \o Passing(PageCandidates(f, run.page), Criteria(run.form))])

PageAtHand == Document(pipe.form.files[pipe.file]).pages[pipe.page]

\* section 4.2, Text-Layer Extractor
extractText ==
    /\ pipe.phase = "page"
    /\ ~ImageOnly(PageAtHand)
    /\ pipe' = Extracted(pipe, "text")
    /\ UNCHANGED frontEnd

\* section 4.3, OCR Fallback Extractor
extractViaOcr ==
    /\ pipe.phase = "page"
    /\ ImageOnly(PageAtHand)
    /\ pipe.ocrAvailable
    /\ pipe' = Extracted(pipe, "ocr")
    /\ UNCHANGED frontEnd

\* section 7, OcrUnavailable: a file requires OCR and the engine cannot run
ocrUnavailable ==
    /\ pipe.phase = "page"
    /\ ImageOnly(PageAtHand)
    /\ ~pipe.ocrAvailable
    /\ pipe' = Failed(pipe, "OcrUnavailable")
    /\ UNCHANGED frontEnd

\* section 4.6, Aggregator: line-search mode keeps the discovery order;
\* /api/extract_part_numbers_from_table answers one entry per file
aggregate ==
    /\ pipe.phase = "aggregate"
    /\ pipe' = [pipe EXCEPT
          !.phase = "done",
          !.result =
              IF pipe.endpoint = "/api/search"
              THEN Concat(pipe.found)
              ELSE [i \in 1..Len(pipe.found) |->
                      LET c  == pipe.found[i]
                          pn == Dedup([k \in 1..Len(c) |-> c[k].part_number])
                      IN  [file_name |-> pipe.form.files[i].name,
                           count |-> Len(pn),
                           part_numbers |-> pn]]]
    /\ UNCHANGED frontEnd

\* the rows the App displays for the answer: part_000:112-127 (flattened and
\* sorted), part_001:135-141 (flattened), part_000:404-415 (the response as
\* it is)
ShownRowsMutant(app, data) ==
    CASE app = "table" -> SortRows(FlattenRows(data))
      [] app = "auto" -> FlattenRows(data)
      [] app = "line-search" -> SortRows(data)

ShownRows(app, data) ==
    CASE app = "table" -> SortRows(FlattenRows(data))
      [] app = "auto" -> FlattenRows(data)
      [] app = "line-search" -> data

setResultsMutant ==
    /\ pipe.phase = "done"
    /\ results' = results \o ShownRows(pipe.app, pipe.result)
    /\ pipe' = [pipe EXCEPT !.phase = "shown"]
    /\ UNCHANGED otherState

\* the App handles the answer: setResults(rows)
setResults ==
    /\ pipe.phase = "done"
    /\ results' = ShownRows(pipe.app, pipe.result)
    /\ pipe' = [pipe EXCEPT !.phase = "shown"]
    /\ UNCHANGED otherState

\* the user clicks the search button again, files and values unchanged; the
\* table-extraction App clears the rows (part_000:98), the other Apps keep
\* them; the pipeline starts from nothing (section 5)
searchAgain ==
    /\ pipe.phase = "shown"
    /\ pipe.run < MaxRuns
    /\ \E ocr \in BOOLEAN :
          pipe' = Submitted(pipe.app, pipe.form, ocr, pipe.run + 1, results)
    /\ results' = IF pipe.app = "table" THEN << >> ELSE results
    /\ UNCHANGED otherState

NextPipeline ==
    \/ validate
    \/ load
    \/ extractText
    \/ extractViaOcr
    \/ ocrUnavailable
    \/ aggregate
    \/ setResults
    \/ searchAgain

SpecPipeline == InitPipeline /\ [][NextPipeline]_vars

-----------------------------------------------------------------------------
(* The Serializer (spec.md, section 4.7) and a reader of its output.  A     *)
(* text is a sequence of characters; the name of a column is written as one *)
(* character.  The front end saves the bytes of the answer as they came     *)
(* (part_000:147-149).                                                      *)

Comma == ","
Quote == "\""
Newline == "\n"
Chars == {"A", Comma, Quote, Newline}

\* the texts of at most n characters
Texts(n) == SeqsUpTo(Chars, n)

PartsListHeader == <<<<"part_number">>, <<"file_name">>>>

\* the file name of the records written; it holds the list separator
CsvFileNames == {<<"f", Comma>>}


NeedsQuotes(field) == \E k \in 1..Len(field) : field[k] \in {Comma, Quote, Newline}

\* every quote of the field doubled
Doubled(field) ==
    Concat([k \in 1..Len(field) |->
              IF field[k] = Quote THEN <<Quote, Quote>> ELSE <<field[k]>>])

QuotedMutant(field) ==
    IF NeedsQuotes(field) THEN <<Quote>> \o field \o <<Quote>> ELSE field

\* standard CSV escaping: a field holding the separator, a quote or a newline
\* is put in quotes, its quotes doubled
Quoted(field) ==
    IF NeedsQuotes(field) THEN <<Quote>> \o Doubled(field) \o <<Quote>> ELSE field

\* the fields of a row separated by commas, the row ended by a newline
CsvRow(fields) ==
    Concat([k \in 1..Len(fields) |->
              (IF k = 1 THEN << >> ELSE <<Comma>>) \o Quoted(fields[k])])
        \o <<Newline>>

\* section 4.7: the header row, then the rows in the order of the ResultSet
toCsv(rs) ==
    CsvRow(PartsListHeader)
        \o Concat([k \in 1..Len(rs) |-> CsvRow(<<rs[k].part_number, rs[k].file_name>>)])

\* a CSV reader: mode is where it stands ("start" of a field, in an
\* "unquoted" field, in a "quoted" field, or after a quote seen in a quoted
\* field: "closing")
RECURSIVE ParseFrom(_, _, _, _, _)
ParseFrom(text, mode, field, row, rows) ==
    IF text = << >>
    THEN IF mode = "start" /\ row = << >> THEN rows
         ELSE Append(rows, Append(row, field))
    ELSE
      LET c    == Head(text)
          rest == Tail(text)
      IN  CASE mode = "quoted" /\ c = Quote ->
                 ParseFrom(rest, "closing", field, row, rows)
            [] mode = "quoted" /\ c # Quote ->
                 ParseFrom(rest, "quoted", Append(field, c), row, rows)
            [] mode = "closing" /\ c = Quote ->
                 ParseFrom(rest, "quoted", Append(field, Quote), row, rows)
            [] mode # "quoted" /\ c = Comma ->
                 ParseFrom(rest, "start", << >>, Append(row, field), rows)
            [] mode # "quoted" /\ c = Newline ->
                 ParseFrom(rest, "start", << >>, << >>, Append(rows, Append(row, field)))
            [] mode = "start" /\ c = Quote ->
                 ParseFrom(rest, "quoted", << >>, row, rows)
            [] OTHER ->
                 ParseFrom(rest, "unquoted", Append(field, c), row, rows)

ParseCsv(text) == ParseFrom(text, "start", << >>, << >>, << >>)

\* the records of the rows below the header
RecordsOf(rows) ==
    [k \in 1..(Len(rows) - 1) |->
        [part_number |-> rows[k + 1][1], file_name |-> rows[k + 1][2]]]

InitCsv ==
    /\ files = << >>
    /\ \E n \in 0..MaxCsvRows, name \in CsvFileNames :
          \E pns \in [1..n -> Texts(MaxFieldLen)] :
              results = [k \in 1..n |-> [part_number |-> pns[k], file_name |-> name]]
    /\ isLoading = FALSE
    /\ error = ""
    /\ lValue = ""
    /\ wValue = ""
    /\ tValue = ""
    /\ hasSearched = FALSE
    /\ inflight = << >>
    /\ lastOp = Idle
    /\ pipe = [phase |-> "aggregated"]

\* section 4.7, toCsv(ResultSet, "parts list")
serialize ==
    /\ pipe.phase = "aggregated"
    /\ pipe' = [phase |-> "serialized", csv |-> toCsv(results)]
    /\ UNCHANGED frontEnd

\* part_000:147-149: new Blob([response.data]) is saved as parts_list.csv
downloadBlob ==
    /\ pipe.phase = "serialized"
    /\ pipe' = [phase |-> "saved", name |-> "parts_list.csv", content |-> pipe.csv]
    /\ UNCHANGED frontEnd

\* the saved file is read back
readBack ==
    /\ pipe.phase = "saved"
    /\ pipe' = [phase |-> "read", rows |-> ParseCsv(pipe.content)]
    /\ UNCHANGED frontEnd

NextCsv ==
    \/ serialize
    \/ downloadBlob
    \/ readBack

SpecCsv == InitCsv /\ [][NextCsv]_vars

-----------------------------------------------------------------------------
(* One CSV download, from the click to the saved file or the error, for the *)
(* CSV handlers of the three Apps.                                          *)

Handler(app, name) == [app |-> app, name |-> name]

CsvHandlers ==
    {Handler("table", "handleDownloadPartsListCsv"),       \* part_000:137-153
     Handler("auto", "handleDownloadPartsListCsv"),        \* part_001:166-193
     Handler("auto", "handleDownloadLinesCsv"),            \* part_001:195-222
     Handler("line-search", "handleDownloadCsv"),          \* part_000:443-449
     Handler("App.jsx:164", "handleDownloadPartsListCsv"), \* App.jsx:164-196
     Handler("App.jsx:199", "handleDownloadPartsListCsv")} \* App.jsx:199-215

\* src/frontend/src/App.jsx declares handleDownloadPartsListCsv twice; either
\* declaration may be the one behind the button (App.jsx:271).
FrontEndHandlers == {h \in CsvHandlers : h.app \in {"App.jsx:164", "App.jsx:199"}}

\* the first declaration is the body of a search around a CSV download: it
\* sets isLoading and empties results (App.jsx:169-171, 193-195)
SetsLoading(h) == h.app = "App.jsx:164"

\* the second declaration calls buildFormData (App.jsx:205), which is not
\* defined anywhere: the call throws inside the try, before any request
FormBuilt(h) == h.app # "App.jsx:199"

PartsCsvFetchFailedText == "parts_list.csv fetch failed"   \* App.jsx:213

\* the endpoint the handler posts to: part_000:143, part_001:174, 203,
\* part_000:384
CsvEndpoint(h) ==
    CASE h.name = "handleDownloadPartsListCsv" -> "/api/extract_parts_list_csv"
      [] h.name = "handleDownloadLinesCsv" -> "/api/extract_lines_csv"
      [] h.name = "handleDownloadCsv" -> "/api/search"

\* the form the handler posts: part_000:144, part_001:175, 204, part_000:389
CsvForm(h, fs, l, w, t) ==
    CASE h = Handler("table", "handleDownloadPartsListCsv") -> toFilesFormData(fs)
      [] h = Handler("auto", "handleDownloadPartsListCsv") -> toPartsTableFormData(fs, l, w, t)
      [] h = Handler("auto", "handleDownloadLinesCsv") -> toLinesCsvFormData(fs)
      [] h = Handler("line-search", "handleDownloadCsv") -> toFormData(fs, l, w, t, TRUE)
      [] h \in FrontEndHandlers -> toPartsTableFormData(fs, l, w, t)

SavedAsMutant(h) ==
    CASE h.name = "handleDownloadPartsListCsv" -> "parts_list.csv"
      [] h.name = "handleDownloadLinesCsv" -> "parts_list.csv"
      [] h.name = "handleDownloadCsv" -> "search_results.csv"

\* the file name the handler saves the blob under: part_000:149,
\* part_001:185, 214, part_000:399
SavedAs(h) ==
    CASE h.name = "handleDownloadPartsListCsv" -> "parts_list.csv"
      [] h.name = "handleDownloadLinesCsv" -> "pdf_lines.csv"
      [] h.name = "handleDownloadCsv" -> "search_results.csv"

\* the fallback text of the handler: part_000:151, part_001:191, 220,
\* part_000:419
CsvFallbackText(h) ==
    CASE h = Handler("table", "handleDownloadPartsListCsv") -> PartsCsvFailedText
      [] h = Handler("auto", "handleDownloadPartsListCsv") -> CsvFailedText
      [] h = Handler("auto", "handleDownloadLinesCsv") -> LinesCsvFailedText
      [] h = Handler("line-search", "handleDownloadCsv") -> CsvFailedText
      [] h = Handler("App.jsx:164", "handleDownloadPartsListCsv") -> SearchFailedText
      [] h = Handler("App.jsx:199", "handleDownloadPartsListCsv") -> PartsCsvFetchFailedText

\* the guard of the handler: part_000:49 and 138 (isLoading is false here),
\* part_001:65-71, part_000:339-341
CsvDisabled(h, fs, l, w) ==
    IF h.app = "line-search" THEN fs = << >> \/ l = "" \/ w = ""
    ELSE fs = << >>

\* the App whose search fills `results` next to the handler
SearchAppOf(h) == IF h.app \in {"table", "line-search"} THEN h.app ELSE "auto"

\* the rows a search of fs with l, w, t has left on the screen
DisplayedRows(h, fs, l, w, t) ==
    LET app == SearchAppOf(h)
        form == FormOfApp(app, fs, l, w, t)
    IN  IF fs = << >> \/ InvalidCriteria(form) THEN << >>
        ELSE ShownRows(app, IF app = "line-search" THEN SearchLines(form)
                            ELSE ExtractPartNumbers(form).data)

InitDownload ==
    /\ files \in SeqsUpTo(AllFiles, MaxBatch)
    /\ lValue \in PipeLValues
    /\ wValue \in PipeWValues
    /\ tValue \in PipeTValues
    /\ isLoading = FALSE
    /\ error \in {"", SearchErrorText}
    /\ hasSearched = FALSE
    /\ inflight = << >>
    /\ lastOp = Idle
    /\ \E h \in CsvHandlers :
          /\ h.app = "table" => lValue = "" /\ wValue = "" /\ tValue = ""
          /\ results \in {<< >>, DisplayedRows(h, files, lValue, wValue, tValue)}
          /\ pipe = [phase |-> "idle", handler |-> h]

\* the handler up to its await, or up to its catch when it throws before
clickDownload ==
    /\ pipe.phase = "idle"
    /\ ~CsvDisabled(pipe.handler, files, lValue, wValue)
    /\ IF FormBuilt(pipe.handler)
       THEN /\ error' = ""
            /\ pipe' = [phase |-> "posted", handler |-> pipe.handler,
                        endpoint |-> CsvEndpoint(pipe.handler),
                        form |-> CsvForm(pipe.handler, files, lValue, wValue, tValue)]
       ELSE /\ error' = CsvFallbackText(pipe.handler)
            /\ pipe' = [phase |-> "failed", handler |-> pipe.handler,
                        endpoint |-> "none", detail |-> ""]
    /\ isLoading' = (IF SetsLoading(pipe.handler) THEN TRUE ELSE isLoading)
    /\ results' = (IF SetsLoading(pipe.handler) THEN << >> ELSE results)
    /\ UNCHANGED <<files, lValue, wValue, tValue, hasSearched, inflight, lastOp>>

\* the answer is a blob: it is saved
saveBlob ==
    /\ pipe.phase = "posted"
    /\ [ok |-> TRUE, detail |-> ""] \in Answers(pipe.form)
    /\ pipe' = [phase |-> "saved", handler |-> pipe.handler,
                endpoint |-> pipe.endpoint, name |-> SavedAs(pipe.handler)]
    /\ isLoading' = (IF SetsLoading(pipe.handler) THEN FALSE ELSE isLoading)
    /\ UNCHANGED <<files, results, error, lValue, wValue, tValue,
                   hasSearched, inflight, lastOp>>

\* the request fails.  With responseType "blob" the body of a failed response
\* is a Blob, which has no `detail`: err.response?.data?.detail is undefined
\* and the fallback text is displayed.
downloadFailed ==
    /\ pipe.phase = "posted"
    /\ \E answer \in Answers(pipe.form) :
          /\ ~answer.ok
          /\ pipe' = [phase |-> "failed", handler |-> pipe.handler,
                      endpoint |-> pipe.endpoint, detail |-> answer.detail]
    /\ error' = CsvFallbackText(pipe.handler)
    /\ isLoading' = (IF SetsLoading(pipe.handler) THEN FALSE ELSE isLoading)
    /\ UNCHANGED <<files, results, lValue, wValue, tValue,
                   hasSearched, inflight, lastOp>>

NextDownload ==
    \/ clickDownload
    \/ saveBlob
    \/ downloadFailed

SpecDownload == InitDownload /\ [][NextDownload]_vars

-----------------------------------------------------------------------------
(* The selected-file list under handleFileChange and handleRemoveFile, the  *)
(* latter called with any index.                                            *)

FileListApps == {"table", "auto"}

\* the indices handleRemoveFile is called with: those of the chips and the
\* ones next to them on either side
RemoveIndices == (0 - 1)..MaxFiles

InitRemove ==
    /\ files = << >>
    /\ results = << >>
    /\ isLoading = FALSE
    /\ error = ""
    /\ lValue = ""
    /\ wValue = ""
    /\ tValue = ""
    /\ hasSearched = FALSE
    /\ inflight = << >>
    /\ lastOp = Idle
    /\ \E app \in FileListApps : pipe = [phase |-> "idle", app |-> app]

\* part_000:53-70, part_001:73-98
handleFileChange ==
    /\ \E selected \in Selections(AllFiles) :
        /\ Len(MergeFiles(files, selected)) <= MaxFiles
        /\ files' = MergeFiles(files, selected)
    /\ hasSearched' = FALSE
    /\ pipe' = [phase |-> "picked", app |-> pipe.app]
    /\ UNCHANGED <<results, isLoading, error, lValue, wValue, tValue,
                   inflight, lastOp>>

\* part_001:157-164 once the search has been answered: the part of
\* handleSearch that bears on handleRemoveFile
handleSearch_completed ==
    /\ pipe.app = "auto"
    /\ ~isSearchDisabled_Auto(files)
    /\ ~hasSearched
    /\ hasSearched' = TRUE
    /\ pipe' = [phase |-> "searched", app |-> pipe.app]
    /\ UNCHANGED <<files, results, isLoading, error, lValue, wValue, tValue,
                   inflight, lastOp>>

\* part_000:78-80, part_001:234-237
handleRemoveFile ==
    /\ \E idx \in RemoveIndices :
        /\ files' = FilterOutIndex(files, idx)
        /\ pipe' = [phase |-> "removed", app |-> pipe.app, idx |-> idx,
                    prev |-> files]
    /\ hasSearched' = FALSE
    /\ UNCHANGED <<results, isLoading, error, lValue, wValue, tValue,
                   inflight, lastOp>>

NextRemove ==
    \/ handleFileChange
    \/ handleSearch_completed
    \/ handleRemoveFile

SpecRemove == InitRemove /\ [][NextRemove]_vars

-----------------------------------------------------------------------------
(* Properties of the table-extraction App *)

SearchDone == lastOp.name = "handleSearch_done"
AnsweredFiles == lastOp.req.form.files

\* (part_number, file_name) compared lexicographically, strings by collation
PairLeq(a, b) ==
    \/ localeCompare(a.part_number, b.part_number) < 0
    \/ /\ localeCompare(a.part_number, b.part_number) = 0
       /\ localeCompare(a.file_name, b.file_name) <= 0

\* C1: after any completed handleSearch of the table-extraction App, every
\* pair of adjacent rows of `results` is non-decreasing in
\* (part_number, file_name), for every backend response.
C1_RowsOrdered ==
    SearchDone =>
        \A i \in 1..(Len(results) - 1) : PairLeq(results[i], results[i + 1])

\* C2: in parts-list mode no two records of the result set share the same
\* (part_number, file_name) pair, also for two distinct files of one name.
C2_NoDuplicateRows ==
    SearchDone /\ (\A i, j \in 1..Len(AnsweredFiles) :
                      i # j => AnsweredFiles[i] # AnsweredFiles[j])
        => \A i, j \in 1..Len(results) : i # j => results[i] # results[j]

ValidFiles(fs) == {f \in Elems(fs) : ~Document(f).corrupt}
CorruptFiles(fs) == {f \in Elems(fs) : Document(f).corrupt}

\* the candidates of the valid files, read off the documents
CandidateRows(fs) ==
    {[part_number |-> Document(f).pages[p].lines[n].parts[k], file_name |-> f.name] :
        <<f, p, n, k>> \in
            {q \in ValidFiles(fs) \X (1..1) \X (1..3) \X (1..1) :
                /\ q[2] <= Len(Document(q[1]).pages)
                /\ q[3] <= Len(Document(q[1]).pages[q[2]].lines)
                /\ q[4] <= Len(Document(q[1]).pages[q[2]].lines[q[3]].parts)}}

C6_NoEqualSignatures ==
    \A i, j \in 1..Len(files) : i # j => Signature(files[i]) # Signature(files[j])

-----------------------------------------------------------------------------
(* Properties of the auto-re-search App *)

\* the same rows, in any order
SameRows(a, b) ==
    \A r \in Elems(a) \cup Elems(b) :
        Cardinality({i \in 1..Len(a) : a[i] = r})
            = Cardinality({i \in 1..Len(b) : b[i] = r})

AnsweredRows == FlattenRows(ExtractPartNumbers(lastOp.req.form).data)

\* C3: after every completed handleSearch, either error is empty and results
\* holds the rows of the whole response, or error is non-empty and results
\* holds no rows of a partially processed or earlier response.  Read where
\* the App has settled (nothing in flight).
C3_ResultOrError ==
    SearchDone /\ inflight = << >> =>
        \/ error = "" /\ lastOp.ok /\ SameRows(results, AnsweredRows)
        \/ error # "" /\ (results = << >> \/ (lastOp.ok /\ SameRows(results, AnsweredRows)))

ValueChanged == lValue' # lValue \/ wValue' # wValue \/ tValue' # tValue

\* the step sent one more request: a silent search with the files selected and
\* the values as they are after the step
SentSilentSearch ==
    /\ Len(inflight') = Len(inflight) + 1
    /\ LET req == inflight'[Len(inflight')]
       IN  /\ req.kind = "search"
           /\ req.silent
           /\ req.form.files = files'
           /\ req.form.fields.l_value = lValue'
           /\ req.form.fields.w_value = wValue'
           /\ req.form.fields.t_value = tValue'
    /\ isLoading' = isLoading

-----------------------------------------------------------------------------
(* Properties of the pipeline *)

Done == pipe.phase = "done"

\* the line has a value within tolerance of the value s asked for on the axis
MatchesAxis(line, axis, s) ==
    \E v \in line[axis] : Abs(v - Tenths(s)) <= Tolerance

\* the candidate c of the i-th file is in the answer
Returned(c, i) ==
    IF pipe.endpoint = "/api/search"
    THEN c \in Elems(pipe.result)
    ELSE c.part_number \in Elems(pipe.result[i].part_numbers)

\* C7: when only L is supplied (W and T empty), a line whose L value matches
\* is not excluded for lacking a discoverable W or T value; and an empty T
\* never constrains the search: with T empty, every line that matches the
\* values supplied for L and W is returned.
C7_OptionalAxis ==
    Done /\ lValue # "" /\ tValue = "" =>
        \A i \in 1..Len(files) : \A c \in Elems(FileCandidates(files[i])) :
            /\ MatchesAxis(c.line, "L", lValue)
            /\ wValue # "" => MatchesAxis(c.line, "W", wValue)
            => Returned(c, i)

C7_Witness ==
    /\ Done
    /\ lValue = "20" /\ wValue = "" /\ tValue = ""
    /\ \E i \in 1..Len(files) : \E c \in Elems(FileCandidates(files[i])) :
          /\ c.line["W"] = {} /\ c.line["T"] = {}
          /\ MatchesAxis(c.line, "L", lValue)
          /\ Returned(c, i)

\* C8: in line-search mode, for the same files, the result with criteria
\* {L=20, W=4} is a subset of the result with no criteria.
C8_FilterMonotone ==
    Done /\ pipe.endpoint = "/api/search"
         /\ lValue = "20" /\ wValue = "4" /\ tValue = "" =>
        Elems(pipe.result) \subseteq Elems(SearchLines(toFormData(files, "", "", "", FALSE)))

C8_Witness ==
    /\ Done /\ pipe.endpoint = "/api/search"
    /\ lValue = "20" /\ wValue = "4" /\ tValue = ""
    /\ pipe.result # << >>
    /\ Len(pipe.result) < Len(SearchLines(toFormData(files, "", "", "", FALSE)))

\* C9: when L, W and T are all empty, the Dimension Matcher passes every line
\* and the answer holds every candidate of every file.
C9_NoCriteriaPassAll ==
    Done /\ lValue = "" /\ wValue = "" /\ tValue = "" =>
        \A i \in 1..Len(files) : \A c \in Elems(FileCandidates(files[i])) :
            matches(c.line, Criteria(pipe.form)) /\ Returned(c, i)

C9_Witness ==
    /\ Done /\ pipe.endpoint = "/api/extract_part_numbers_from_table"
    /\ lValue = "" /\ wValue = "" /\ tValue = ""
    /\ \E i \in 1..Len(files) : \E c \in Elems(FileCandidates(files[i])) :
          c.line["L"] = {} /\ Returned(c, i)

\* C10: when a supplied L, W or T value is non-numeric, the request fails
\* with InvalidCriteria and no extraction step (load, text extraction, OCR)
\* has run on any file.
C10_InvalidCriteriaFirst ==
    InvalidCriteria(pipe.form) =>
        /\ pipe.steps = << >>
        /\ pipe.phase \in {"received", "failed"}
        /\ pipe.phase = "failed" => pipe.error = "InvalidCriteria"

C10_Witness ==
    /\ pipe.phase = "failed"
    /\ pipe.error = "InvalidCriteria"
    /\ tValue = "abc"
    /\ lValue = "20"

-----------------------------------------------------------------------------
(* Properties of both Apps *)

\* the step handled the answer to a request, and the answer was a failure
\* (every other step leaves lastOp.ok true)
FailureHandled == ~lastOp'.ok

\* C11: a request that fails is never re-issued by the program itself: the
\* step that handles a failed answer sends no request (every other step that
\* sends one is a click or a change of an input).
C11_NoRetry ==
    [][FailureHandled => Len(inflight') = Len(inflight) - 1]_vars

Shown == pipe.phase = "shown"

\* C12: running the search twice on the same file list with the same criteria
\* displays the same rows in the same order, whatever the rows left in
\* `results` by the run before.
C12_Idempotent ==
    Shown /\ pipe.run > 1 => results = pipe.previous

C12_Witness ==
    /\ Shown
    /\ pipe.run = 2
    /\ pipe.app = "table"
    /\ Len(results) > 1

\* the page a step of the run worked on
PageOf(step) == Document(pipe.form.files[step[2]]).pages[step[3]]

\* C13: OCR runs on a page only when the page is image-only, i.e. its decoded
\* text layer is empty or whitespace-only; a text-bearing page goes through
\* the Text-Layer Extractor, never through OCR.
C13_OcrOnlyImageOnly ==
    \A k \in 1..Len(pipe.steps) :
        /\ pipe.steps[k][1] = "ocr" => PageOf(pipe.steps[k]).textLayer \in Whitespace
        /\ pipe.steps[k][1] = "text" => PageOf(pipe.steps[k]).textLayer \notin Whitespace

C13_Witness ==
    /\ Done
    /\ \E k \in 1..Len(pipe.steps) : pipe.steps[k][1] = "ocr"
    /\ \E k \in 1..Len(pipe.steps) : pipe.steps[k][1] = "text"

\* the candidates are in page-then-line order
InLineOrder(cands) ==
    \A k \in 1..(Len(cands) - 1) :
        LET a == cands[k].matched_line
            b == cands[k + 1].matched_line
        IN  a[1] < b[1] \/ (a[1] = b[1] /\ a[2] <= b[2])

\* C14: in line-search mode the records are in file-then-page-then-line
\* order, and the line-search App displays the response as it came, without
\* re-sorting it.
C14_DiscoveryOrder ==
    Shown /\ pipe.app = "line-search" =>
        /\ results = pipe.result
        /\ results = Concat(pipe.found)
        /\ \A i \in 1..Len(pipe.found) :
              /\ InLineOrder(pipe.found[i])
              /\ \A k \in 1..Len(pipe.found[i]) :
                    /\ pipe.found[i][k].file_name = files[i].name
                    /\ pipe.found[i][k] \in Elems(FileCandidates(files[i]))

\* two files, the first after the second by name, each with a record; the
\* records of the second file keep the order of its lines though their part
\* numbers are not in order
C14_Witness ==
    /\ Shown /\ pipe.app = "line-search"
    /\ Len(files) = 2
    /\ localeCompare(files[1].name, files[2].name) > 0
    /\ pipe.found[1] # << >>
    /\ Len(pipe.found[2]) > 1
    /\ localeCompare(results[2].part_number, results[3].part_number) > 0

-----------------------------------------------------------------------------
(* Properties of the Serializer *)

\* C15: parsing the emitted parts_list.csv back yields the header row and
\* then exactly the records of the ResultSet, field for field and in the same
\* order, also for a part number holding a comma, a quote or a newline.
C15_CsvRoundTrip ==
    pipe.phase = "read" =>
        /\ pipe.rows # << >>
        /\ pipe.rows[1] = PartsListHeader
        /\ \A k \in 1..Len(pipe.rows) : Len(pipe.rows[k]) = 2
        /\ RecordsOf(pipe.rows) = results

C15_Witness ==
    /\ pipe.phase = "read"
    /\ Len(results) = 2
    /\ results[1].part_number = <<Comma, Quote>>
    /\ results[2].part_number = <<Newline>>
    /\ RecordsOf(pipe.rows) = results

-----------------------------------------------------------------------------
(* Properties of the CSV downloads *)

\* spec.md, section 6: the file name of each schema
SchemaFileName(endpoint) ==
    CASE endpoint = "/api/search" -> "search_results.csv"
      [] endpoint = "/api/extract_parts_list_csv" -> "parts_list.csv"
      [] endpoint = "/api/extract_lines_csv" -> "pdf_lines.csv"

\* C16: a download from /api/search is saved as search_results.csv, from
\* /api/extract_parts_list_csv as parts_list.csv and from
\* /api/extract_lines_csv as pdf_lines.csv.
C16_CsvFileName ==
    pipe.phase = "saved" => pipe.name = SchemaFileName(pipe.endpoint)

C16_Witness ==
    /\ pipe.phase = "saved"
    /\ pipe.endpoint = "/api/extract_lines_csv"
    /\ pipe.name = "pdf_lines.csv"

-----------------------------------------------------------------------------
(* Properties of the selected-file list *)

Removed == pipe.phase = "removed"
InRange(idx, list) == idx \in 0..(Len(list) - 1)

C17_WitnessOutOfRange ==
    /\ Removed
    /\ Len(pipe.prev) = 2
    /\ pipe.idx = 2
    /\ files = pipe.prev

-----------------------------------------------------------------------------
(* Properties of the error message *)

\* the fallback text of the operation whose failure the step handled
FallbackOf(op) ==
    IF op = "handleSearch_done" THEN SearchFailedText ELSE PartsCsvFailedText

RequestSent == Len(inflight') > Len(inflight)

\* C18: after a failed search or CSV request `error` is the server's detail
\* when the response carries one and the fallback text of the operation
\* otherwise, and `error` is emptied when a search or CSV request is sent.
C18_ErrorMessage ==
    [][/\ FailureHandled =>
            error' = (IF lastOp'.detail # "" THEN lastOp'.detail
                      ELSE FallbackOf(lastOp'.name))
       /\ RequestSent => error' = ""]_vars

-----------------------------------------------------------------------------
(* Properties of overlapping searches in the auto-re-search App *)

SearchesInFlight(q) == {i \in 1..Len(q) : q[i].kind = "search"}

\* the step handles the answer, with rows, of the last search in flight
LastSearchAnswered ==
    /\ lastOp'.req.kind = "search"
    /\ lastOp'.ok
    /\ SearchesInFlight(inflight') = {}

\* the rows the pipeline returns for the files and values on the screen
CurrentRows(fs, l, w, t) ==
    FlattenRows(ExtractPartNumbers(toPartsTableFormData(fs, l, w, t)).data)

\* C19: once every search in flight has been answered, whatever the order of
\* the answers, `results` holds the rows of the request issued last, i.e. the
\* rows for the current L/W/T values and file list.  While hasSearched is
\* true and a file is selected, the request issued last carries the current
\* files and values: the effect sent one when hasSearched became true, and
\* every later change of a value and every later click has sent another.
C19_LatestRequestWins ==
    [][(LastSearchAnswered /\ hasSearched' /\ files' # << >> /\ error' = "") =>
           results' = CurrentRows(files', lValue', wValue', tValue')]_vars

-----------------------------------------------------------------------------
(* Properties of isLoading in the table-extraction App *)

\* C20: at most one search request is in flight at any time; while isLoading
\* is true no step sends a search or CSV request, picks files or clears.
\* (A file can still be removed by its chip: the list may get shorter by one
\* file, and error, which handleClear empties, stays as it is.)
C20_OneSearchInFlight ==
    [][/\ Cardinality(SearchesInFlight(inflight')) <= 1
       /\ isLoading =>
            /\ Len(inflight') <= Len(inflight)
            /\ Len(files') <= Len(files)
            /\ Len(files) > 1 => files' # << >>
            /\ files' # files => error' = error]_vars

\* a search is in flight with two files selected, and a CSV request was sent
\* before it
C20_Witness ==
    /\ isLoading
    /\ Len(files) = 2
    /\ Len(inflight) = 2
    /\ Cardinality(SearchesInFlight(inflight)) = 1

-----------------------------------------------------------------------------
(* Properties of isLoading over time *)

\* C21: every handleSearch that sets isLoading to true sets it back to false
\* in the end, whatever the answer; isLoading is not true when no request is
\* in flight.
C21_LoadingEnds ==
    /\ isLoading ~> ~isLoading
    /\ [](inflight = << >> => ~isLoading)

\* a search that failed without a response has been handled
C21_Witness ==
    /\ lastOp.name = "handleSearch_done"
    /\ ~lastOp.ok
    /\ lastOp.detail = ""
    /\ ~isLoading
    /\ inflight = << >>

-----------------------------------------------------------------------------
(* Properties of the requests one click sends in the auto-re-search App *)

\* the step handles the answer, with rows, of the search a click has sent
\* (a failed answer is the case of C11)
ClickAnswered == lastOp'.name = "handleSearch_done" /\ lastOp'.ok

\* the step has put a silent search for the same files and criteria in flight
SilentRepeatSent ==
    /\ Len(inflight') = Len(inflight)
    /\ inflight'[Len(inflight')].kind = "search"
    /\ inflight'[Len(inflight')].silent
    /\ inflight'[Len(inflight')].form = lastOp'.req.form

\* C22: one click on the search button sends one search request: when its
\* answer is handled and hasSearched turns true, no silent request for the
\* same files and criteria follows.
C22_OneClickOneRequest ==
    [][ClickAnswered => ~SilentRepeatSent]_vars

-----------------------------------------------------------------------------
(* Properties of the file list and the searches in the auto-re-search App *)

\* the step handles the answer of a clicked search and sends a silent search
EffectAfterClick ==
    /\ lastOp'.name = "handleSearch_done"
    /\ Len(inflight') = Len(inflight)
    /\ inflight'[Len(inflight')].silent

\* C23: after the file list has changed no search request is sent until the
\* search button is clicked again, also when the change happens while a
\* clicked search is in flight: a search sent without a click carries the
\* file list of the click.
C23_NoSearchAfterFileChange ==
    [][EffectAfterClick =>
          inflight'[Len(inflight')].form.files = lastOp'.req.form.files]_vars

-----------------------------------------------------------------------------
(* Properties of the rows on the screen and the selected files *)

SelectedNames == {files[i].name : i \in 1..Len(files)}

\* C24: whenever no request is in flight, every row of `results` names a
\* file that is selected: no row of a removed or cleared file stays on the
\* screen.
C24_RowsOfSelectedFiles ==
    inflight = << >> =>
        \A k \in 1..Len(results) : results[k].file_name \in SelectedNames

-----------------------------------------------------------------------------
(* Frame of the CSV downloads *)

\* C25: a CSV download, successful or failed, leaves files, results and
\* isLoading unchanged; of the state of the App it may change `error` only.
C25_CsvFrame ==
    [][/\ files' = files
       /\ results' = results
       /\ isLoading' = isLoading]_vars

====
